---- MODULE Spec2Model ----
(***************************************************************************)
(* A model of backend/main.py: the text extractor, the two-call analysis   *)
(* flow with its response parser, the chat flow and user registration.     *)
(* Python strings are sequences of one-character strings.                  *)
(***************************************************************************)
EXTENDS Integers, Sequences, FiniteSets, TLC

VARIABLES
    \* ---- response parser run on its own (gemini_explain, lines 119-139)
    answer,      \* the text of the main answer
    sections,    \* re.split's result
    data_map,    \* the fields being filled
    i,           \* the loop index of `for i in range(1, len(sections), 2)`
    ppc,         \* position of the parser: "split", "loop", "done", "raised"
    \* ---- one request on /api/analyze-document or /api/chat
    apc,         \* position of the handler
    endpoint,    \* "none", "analyze" or "chat"
    file,        \* the uploaded file: [filename, content]
    text,        \* the extracted text
    readers,     \* format readers invoked, in order
    raisedAt,    \* the raise statement that ended extraction ("none" if none)
    calls,       \* upstream calls issued, in order
    mainOutcome, \* outcome of the main upstream call
    riskOutcome, \* outcome of the risk upstream call
    result,      \* the DocumentResponse built (or NoResult)
    response,    \* the HTTP response
    \* ---- concurrent requests on /api/register
    users,       \* committed rows of the users table
    data,        \* data[r]: the RegisterRequest of request r
    rpc,         \* rpc[r]: position of request r in register_user
    snap,        \* snap[r]: the rows the uniqueness query of r saw
    pending,     \* pending[r]: rows added to r's session, not yet committed
    log,         \* log[r]: session operations r performed, in order
    status       \* status[r]: HTTP status of r's response (0: none yet)

parserVars == <<answer, sections, data_map, i, ppc>>
flowVars == <<apc, endpoint, file, text, readers, raisedAt, calls, mainOutcome,
              riskOutcome, result, response>>
regVars == <<users, data, rpc, snap, pending, log, status>>
vars == <<answer, sections, data_map, i, ppc,
          apc, endpoint, file, text, readers, raisedAt, calls, mainOutcome,
          riskOutcome, result, response,
          users, data, rpc, snap, pending, log, status>>

(***************************************************************************)
(* Bounds of the model.                                                    *)
(***************************************************************************)
MaxSections == 2   \* headings in a composed answer
MaxBodyLen == 4    \* characters of an exhaustively enumerated section body
MaxRiskLen == 3    \* characters of the risk call's text
NReq == 2          \* concurrent register requests

(***************************************************************************)
(* Python str operations.                                                  *)
(***************************************************************************)
Whitespace == {" ", "\t", "\n", "\r"}
Digits == {"0", "1", "2", "3", "4", "5", "6", "7", "8", "9"}

UpperCase == <<"A","B","C","D","E","F","G","H","I","J","K","L","M",
               "N","O","P","Q","R","S","T","U","V","W","X","Y","Z">>
LowerCase == <<"a","b","c","d","e","f","g","h","i","j","k","l","m",
               "n","o","p","q","r","s","t","u","v","w","x","y","z">>

SetMin(S) == CHOOSE x \in S : \A y \in S : x <= y
SetMax(S) == CHOOSE x \in S : \A y \in S : x >= y

\* str.lower()
LowerChar(c) ==
    IF \E k \in 1..26 : UpperCase[k] = c
    THEN LowerCase[CHOOSE k \in 1..26 : UpperCase[k] = c]
    ELSE c
Lower(s) == [k \in 1..Len(s) |-> LowerChar(s[k])]

\* str.strip(chars): leading and trailing characters of `chars` removed
StripChars(s, chars) ==
    LET keep == {k \in 1..Len(s) : s[k] \notin chars}
    IN IF keep = {} THEN <<>> ELSE SubSeq(s, SetMin(keep), SetMax(keep))

\* str.strip()
Strip(s) == StripChars(s, Whitespace)

\* sub in s
Contains(s, sub) ==
    \E k \in 1..(Len(s) - Len(sub) + 1) : SubSeq(s, k, k + Len(sub) - 1) = sub

\* s.startswith(pre), s.endswith(suf)
StartsWith(s, pre) == Len(s) >= Len(pre) /\ SubSeq(s, 1, Len(pre)) = pre
EndsWith(s, suf) ==
    Len(s) >= Len(suf) /\ SubSeq(s, Len(s) - Len(suf) + 1, Len(s)) = suf

\* str.splitlines(): a line ends at \n, \r or \r\n; no empty last line
RECURSIVE SplitLinesFrom(_, _, _, _)
SplitLinesFrom(s, k, cur, acc) ==
    IF k > Len(s) THEN (IF cur = <<>> THEN acc ELSE Append(acc, cur))
    ELSE IF s[k] = "\r" /\ k < Len(s) /\ s[k + 1] = "\n"
         THEN SplitLinesFrom(s, k + 2, <<>>, Append(acc, cur))
    ELSE IF s[k] \in {"\n", "\r"}
         THEN SplitLinesFrom(s, k + 1, <<>>, Append(acc, cur))
    ELSE SplitLinesFrom(s, k + 1, Append(cur, s[k]), acc)
SplitLines(s) == SplitLinesFrom(s, 1, <<>>, <<>>)

\* "\n".join(parts)
RECURSIVE JoinLines(_)
JoinLines(parts) ==
    IF parts = <<>> THEN <<>>
    ELSE IF Len(parts) = 1 THEN parts[1]
    ELSE parts[1] \o <<"\n">> \o JoinLines(Tail(parts))

\* [f(x) for x in s if p(x)] for sequences: the elements of s kept by `keep`
RECURSIVE SelectIdx(_, _, _)
SelectIdx(s, keep, k) ==
    IF k > Len(s) THEN <<>>
    ELSE IF k \in keep THEN <<s[k]>> \o SelectIdx(s, keep, k + 1)
    ELSE SelectIdx(s, keep, k + 1)

(***************************************************************************)
(* re.split(r"\*\*\d+\.\s*([^\*]+):\*\*", answer), line 119.               *)
(* MatchAt(s, k) is the match of the pattern starting at position k:       *)
(* "**", the maximal run of digits, ".", then the label: the text up to    *)
(* the ":" that stands right before the next "**", without the leading     *)
(* whitespace \s* takes (which gives one character back when the label     *)
(* would be empty).                                                        *)
(***************************************************************************)
NoMatch == [ok |-> FALSE, label |-> <<>>, next |-> 0]

MatchAt(s, k) ==
    IF ~(k + 1 <= Len(s) /\ s[k] = "*" /\ s[k + 1] = "*") THEN NoMatch
    ELSE
    LET nonDigit == {p \in (k + 2)..Len(s) : s[p] \notin Digits}
    IN IF nonDigit = {} THEN NoMatch
       ELSE
       LET dot == SetMin(nonDigit)
       IN IF dot = k + 2 \/ s[dot] # "." THEN NoMatch
          ELSE
          LET stars == {p \in (dot + 1)..Len(s) : s[p] = "*"}
          IN IF stars = {} THEN NoMatch
             ELSE
             LET star == SetMin(stars)
                 colon == star - 1
                 nonWs == SetMin({p \in (dot + 1)..star : s[p] \notin Whitespace})
                 from == IF nonWs < colon THEN nonWs ELSE colon - 1
             IN IF colon > dot /\ s[colon] = ":" /\ from > dot
                   /\ star + 1 <= Len(s) /\ s[star + 1] = "*"
                THEN [ok |-> TRUE, label |-> SubSeq(s, from, colon - 1),
                      next |-> star + 2]
                ELSE NoMatch

RECURSIVE ReSplitFrom(_, _, _, _)
ReSplitFrom(s, k, start, acc) ==
    IF k > Len(s) THEN Append(acc, SubSeq(s, start, Len(s)))
    ELSE LET m == MatchAt(s, k)
         IN IF m.ok
            THEN ReSplitFrom(s, m.next, m.next,
                             acc \o <<SubSeq(s, start, k - 1), m.label>>)
            ELSE ReSplitFrom(s, k + 1, start, acc)
ReSplit(s) == ReSplitFrom(s, 1, 1, <<>>)

(***************************************************************************)
(* The section loop of gemini_explain, lines 120-139.                      *)
(***************************************************************************)
kwExplanation == <<"e","x","p","l","a","n","a","t","i","o","n">>
kwExplain == <<"e","x","p","l","a","i","n">>
kwSummary == <<"s","u","m","m","a","r","y">>
kwKeyPoint == <<"k","e","y"," ","p","o","i","n","t">>
kwRisk == <<"r","i","s","k">>
kwRecommendation == <<"r","e","c","o","m","m","e","n","d","a","t","i","o","n">>

\* lines 120-126
InitDataMap ==
    [explanation |-> <<>>, summary |-> <<>>, key_points |-> <<>>,
     risks |-> <<>>, recommendations |-> <<>>]

\* [line.strip("* ").strip() for line in section_text.splitlines()
\*  if line.strip().startswith("*")], lines 135, 137, 139
BulletLines(section_text) ==
    LET lines == SplitLines(section_text)
        kept == SelectIdx(lines,
                          {k \in 1..Len(lines) : StartsWith(Strip(lines[k]), <<"*">>)},
                          1)
    IN [k \in 1..Len(kept) |-> Strip(StripChars(kept[k], {"*", " "}))]

\* a variant of the loop body that tests "risk" before "summary"
ApplySectionRiskFirst(dm, name, body) ==
    LET section_name == Lower(Strip(name))
        section_text == Strip(body)
    IN IF Contains(section_name, kwExplanation) \/ Contains(section_name, kwExplain)
       THEN [dm EXCEPT !.explanation = section_text]
       ELSE IF Contains(section_name, kwRisk)
       THEN [dm EXCEPT !.risks = BulletLines(section_text)]
       ELSE IF Contains(section_name, kwSummary)
       THEN [dm EXCEPT !.summary = section_text]
       ELSE IF Contains(section_name, kwKeyPoint)
       THEN [dm EXCEPT !.key_points = BulletLines(section_text)]
       ELSE IF Contains(section_name, kwRecommendation)
       THEN [dm EXCEPT !.recommendations = BulletLines(section_text)]
       ELSE dm

\* the body of the loop, lines 128-139
ApplySection(dm, name, body) ==
    LET section_name == Lower(Strip(name))
        section_text == Strip(body)
    IN IF Contains(section_name, kwExplanation) \/ Contains(section_name, kwExplain)
       THEN [dm EXCEPT !.explanation = section_text]
       ELSE IF Contains(section_name, kwSummary)
       THEN [dm EXCEPT !.summary = section_text]
       ELSE IF Contains(section_name, kwKeyPoint)
       THEN [dm EXCEPT !.key_points = BulletLines(section_text)]
       ELSE IF Contains(section_name, kwRisk)
       THEN [dm EXCEPT !.risks = BulletLines(section_text)]
       ELSE IF Contains(section_name, kwRecommendation)
       THEN [dm EXCEPT !.recommendations = BulletLines(section_text)]
       ELSE dm

\* the whole loop from Python index k on, lines 127-139
RECURSIVE ParseFrom(_, _, _)
ParseFrom(secs, k, dm) ==
    IF k >= Len(secs) THEN dm
    ELSE ParseFrom(secs, k + 2, ApplySection(dm, secs[k + 1], secs[k + 2]))

\* lines 119-139
ParseAnswer(a) == ParseFrom(ReSplit(a), 1, InitDataMap)

(***************************************************************************)
(* Answers the parser is run on.  A composed answer is some text followed  *)
(* by up to MaxSections headings "**<n>. <label>:**", each with a body; a  *)
(* list answer is one list heading with every body of up to MaxBodyLen     *)
(* characters over BodyAlphabet.                                           *)
(***************************************************************************)
lblExplanation == <<"E","x","p","l","a","n","a","t","i","o","n">>
lblExplain == <<"E","X","P","L","A","I","N"," ","i","t">>
lblSummary == <<"S","u","m","m","a","r","y">>
lblKeyPoints == <<"K","e","y"," ","P","o","i","n","t","s">>
lblRisks == <<"R","i","s","k","s">>
lblRecommendations == <<"R","e","c","o","m","m","e","n","d","a","t","i","o","n","s">>
lblLegal == <<"L","e","g","a","l"," ","R","e","f","e","r","e","n","c","e","s">>
lblRiskSummary == <<"R","i","s","k"," ","S","u","m","m","a","r","y">>

Labels == {lblExplanation, lblExplain, lblSummary, lblKeyPoints, lblRisks,
           lblRecommendations, lblLegal, lblRiskSummary}
ListLabels == {lblKeyPoints, lblRisks, lblRecommendations}

bodyOne == <<"\n"," ","o","n","e"," ","\n","*"," ","a","\n">>
bodyTwo == <<" ","*","b"," ","*","\n","t","w","o","\n"," ","*","*","c">>
Bodies == {bodyOne, bodyTwo}
BodyAlphabet == {"*", " ", "a", "\n"}

preamble == <<"o","k","\n">>

DigitChar(n) == <<"0","1","2","3","4","5","6","7","8","9">>[n + 1]
Heading(n, label) == <<"*","*",DigitChar(n),"."," ">> \o label \o <<":","*","*">>

\* all strings over `alphabet` of at most n characters
StringsUpTo(alphabet, n) == UNION {[1..m -> alphabet] : m \in 0..n}

RECURSIVE ComposeFrom(_, _)
ComposeFrom(ps, k) ==
    IF k > Len(ps) THEN <<>>
    ELSE Heading(k, ps[k][1]) \o ps[k][2] \o ComposeFrom(ps, k + 1)
Compose(ps) == preamble \o ComposeFrom(ps, 1)

ComposedAnswers ==
    {Compose(ps) : ps \in UNION {[1..m -> Labels \X Bodies] : m \in 0..MaxSections}}
ListAnswers ==
    {Heading(3, l) \o b : l \in ListLabels, b \in StringsUpTo(BodyAlphabet, MaxBodyLen)}

(***************************************************************************)
(* The parser run on its own, one loop iteration per step.                 *)
(***************************************************************************)
ParserOff ==
    /\ answer = <<>>
    /\ sections = <<>>
    /\ data_map = InitDataMap
    /\ i = 0
    /\ ppc = "off"

ParserInit ==
    /\ answer \in ComposedAnswers \cup ListAnswers
    /\ sections = <<>>
    /\ data_map = InitDataMap
    /\ i = 0
    /\ ppc = "split"

\* lines 119-126
PSplit ==
    /\ ppc = "split"
    /\ sections' = ReSplit(answer)
    /\ data_map' = InitDataMap
    /\ i' = 1
    /\ ppc' = "loop"
    /\ UNCHANGED <<answer, flowVars, regVars>>

\* one iteration of the loop, lines 127-139; sections[i+1] raises IndexError
\* when i is the last index
PStep ==
    /\ ppc = "loop"
    /\ i < Len(sections)
    /\ IF i + 1 >= Len(sections)
       THEN /\ ppc' = "raised"
            /\ UNCHANGED <<data_map, i>>
       ELSE /\ data_map' = ApplySection(data_map, sections[i + 1], sections[i + 2])
            /\ i' = i + 2
            /\ ppc' = "loop"
    /\ UNCHANGED <<answer, sections, flowVars, regVars>>

\* the loop ends, line 127
PDone ==
    /\ ppc = "loop"
    /\ i >= Len(sections)
    /\ ppc' = "done"
    /\ UNCHANGED <<answer, sections, data_map, i, flowVars, regVars>>

(***************************************************************************)
(* Text extraction, lines 57-81.  An uploaded file is a filename and a     *)
(* content; a content is its bytes (the token "xFF" is a byte that is not  *)
(* valid UTF-8), the format it really has, and the paragraph or page texts *)
(* the matching reader finds in it (NonePart: a page without text).        *)
(***************************************************************************)
NoMessage == [msg |-> "", arg |-> <<>>]
Part(t) == [none |-> FALSE, text |-> t]
NonePart == [none |-> TRUE, text |-> <<>>]

extTxt == <<".","t","x","t">>
extDocx == <<".","d","o","c","x">>
extPdf == <<".","p","d","f">>

Filenames ==
    { <<"a">> \o extTxt, <<"a">> \o extDocx, <<"a">> \o extPdf,
      <<"A",".","T","X","T">>, <<"A",".","P","D","F">>,
      <<"a",".","d","o","c">>, <<"t","x","t">>, <<"a">> \o extPdf \o <<"~">> }

Contents ==
    { [format |-> "text", bytes |-> <<"h","xFF","i">>, parts |-> <<>>],
      [format |-> "docx", bytes |-> <<"P","K">>, parts |-> <<Part(<<"p">>), Part(<<"q">>)>>],
      [format |-> "pdf", bytes |-> <<"%","P","D","F">>, parts |-> <<Part(<<"p">>), NonePart>>] }

Files == [filename : Filenames, content : Contents]

\* the exception messages (str(e)), lines 65, 73, 81; the first carries the
\* filename ("Неподдерживаемый формат файла: {filename}", "Ошибка при чтении
\* DOCX файла", "Ошибка при чтении PDF файла")
MsgUnsupported(filename) == [msg |-> "Unsupported file format: ", arg |-> filename]
MsgDocx == [msg |-> "Error reading DOCX file", arg |-> <<>>]
MsgPdf == [msg |-> "Error reading PDF file", arg |-> <<>>]

Returned(t, used) == [raised |-> "none", text |-> t, readers |-> used, message |-> NoMessage]
Raised(site, m, used) == [raised |-> site, text |-> <<>>, readers |-> used, message |-> m]

\* content.decode('utf-8', errors='ignore'), line 59
Decode(bytes) == SelectIdx(bytes, {k \in 1..Len(bytes) : bytes[k] # "xFF"}, 1)

\* lines 67-73: docx.Document raises on a payload that is no DOCX
extract_text_from_docx(content) ==
    IF content.format = "docx"
    THEN Returned(JoinLines([k \in 1..Len(content.parts) |-> content.parts[k].text]),
                  <<"docx">>)
    ELSE Raised("docx", MsgDocx, <<"docx">>)

\* lines 75-81: PdfReader raises on a payload that is no PDF
extract_text_from_pdf(content) ==
    IF content.format = "pdf"
    THEN Returned(JoinLines([k \in 1..Len(content.parts) |->
                     IF content.parts[k].none THEN <<>> ELSE content.parts[k].text]),
                  <<"pdf">>)
    ELSE Raised("pdf", MsgPdf, <<"pdf">>)

\* a variant of the dispatch that compares the suffix case-insensitively
extract_text_from_file_nocase(content, filename) ==
    IF EndsWith(Lower(filename), extTxt) THEN Returned(Decode(content.bytes), <<>>)
    ELSE IF EndsWith(Lower(filename), extDocx) THEN extract_text_from_docx(content)
    ELSE IF EndsWith(Lower(filename), extPdf) THEN extract_text_from_pdf(content)
    ELSE Raised("unsupported", MsgUnsupported(filename), <<>>)

\* lines 57-65
extract_text_from_file(content, filename) ==
    IF EndsWith(filename, extTxt) THEN Returned(Decode(content.bytes), <<>>)
    ELSE IF EndsWith(filename, extDocx) THEN extract_text_from_docx(content)
    ELSE IF EndsWith(filename, extPdf) THEN extract_text_from_pdf(content)
    ELSE Raised("unsupported", MsgUnsupported(filename), <<>>)

(***************************************************************************)
(* The upstream call, lines 109-112, 152-155, 201-204: the outcome of      *)
(* requests.post, raise_for_status, json() and the subscripts.             *)
(***************************************************************************)
FailureKinds == {"http_error", "network", "timeout", "bad_json", "missing"}
Failure(kind) == [kind |-> kind, text |-> <<>>]
Ok(t) == [kind |-> "ok", text |-> t]
NoOutcome == [kind |-> "none", text |-> <<>>]

\* str(e) of the exception each failure raises
ExcMessage(o) ==
    CASE o.kind = "http_error" -> [msg |-> "HTTPError: 500 Server Error", arg |-> <<>>]
      [] o.kind = "network" -> [msg |-> "ConnectionError", arg |-> <<>>]
      [] o.kind = "timeout" -> [msg |-> "ReadTimeout", arg |-> <<>>]
      [] o.kind = "bad_json" -> [msg |-> "JSONDecodeError", arg |-> <<>>]
      [] o.kind = "missing" -> [msg |-> "'candidates'", arg |-> <<>>]

(***************************************************************************)
(* int(risk_text.strip()), line 157: an optional sign, then digits, with   *)
(* single underscores allowed between digits.                              *)
(***************************************************************************)
DigitValue(c) == CHOOSE n \in 0..9 : DigitChar(n) = c

RECURSIVE DecimalValue(_, _)
DecimalValue(s, acc) ==
    IF s = <<>> THEN acc
    ELSE IF s[1] = "_" THEN DecimalValue(Tail(s), acc)
    ELSE DecimalValue(Tail(s), 10 * acc + DigitValue(s[1]))

IntLiteral(s) ==
    /\ s # <<>>
    /\ s[1] \in Digits
    /\ s[Len(s)] \in Digits
    /\ \A k \in 1..Len(s) : s[k] \in Digits \cup {"_"}
    /\ \A k \in 1..(Len(s) - 1) : ~(s[k] = "_" /\ s[k + 1] = "_")

\* [ok |-> FALSE]: ValueError
ParseInt(s) ==
    LET t == Strip(s)
        signed == t # <<>> /\ t[1] \in {"+", "-"}
        body == IF signed THEN Tail(t) ELSE t
    IN IF IntLiteral(body)
       THEN [ok |-> TRUE,
             value |-> IF signed /\ t[1] = "-" THEN 0 - DecimalValue(body, 0)
                       ELSE DecimalValue(body, 0)]
       ELSE [ok |-> FALSE, value |-> 0]

DefaultRisk == 50

\* a variant of the risk step whose outer handler stores 0
RiskValueOuterZero(o) ==
    IF o.kind = "ok"
    THEN (IF ParseInt(o.text).ok THEN ParseInt(o.text).value ELSE DefaultRisk)
    ELSE 0

\* lines 151-162: the value stored in data_map["risk"]
RiskValue(o) ==
    IF o.kind = "ok"
    THEN (IF ParseInt(o.text).ok THEN ParseInt(o.text).value ELSE DefaultRisk)
    ELSE DefaultRisk

\* lines 164-172
DocumentResponse(dm, risk, full_text) ==
    [explanation |-> dm.explanation, summary |-> dm.summary,
     key_points |-> dm.key_points, risks |-> dm.risks,
     recommendations |-> dm.recommendations, risk |-> risk, full_text |-> full_text]

(***************************************************************************)
(* One request on /api/analyze-document (lines 174-182, with               *)
(* gemini_explain, lines 83-172) or on /api/chat (lines 184-207).  A       *)
(* blocking requests.post is two steps: the request is sent, then its      *)
(* outcome arrives.                                                        *)
(***************************************************************************)
NoResult == [none |-> TRUE]
NoFile == [filename |-> <<>>, content |-> [format |-> "none", bytes |-> <<>>, parts |-> <<>>]]
NoResponse == [status |-> 0, detail |-> NoMessage, body |-> NoResult]

ChatErrorStatus == 500      \* line 207
\* a variant of the analysis boundary that answers as the chat boundary does
AnalyzeErrorStatusAsChat == ChatErrorStatus
AnalyzeErrorStatus == 400   \* line 182

\* the answers the main call returns in the request flow
FlowAnswers ==
    { preamble,
      Compose(<< <<lblSummary, bodyOne>>, <<lblRisks, bodyTwo>> >>),
      Compose(<< <<lblExplanation, bodyTwo>>, <<lblKeyPoints, bodyOne>> >>) }
MainOutcomes == {Failure(k) : k \in FailureKinds} \cup {Ok(a) : a \in FlowAnswers}

RiskAlphabet == {"0", "1", "5", "-", " ", "x"}
RiskTexts == StringsUpTo(RiskAlphabet, MaxRiskLen)
RiskOutcomes == {Failure(k) : k \in FailureKinds} \cup {Ok(t) : t \in RiskTexts}

ChatOutcomes == {Failure(k) : k \in FailureKinds} \cup {Ok(preamble)}

\* a variant that sends the main request again after a failure
OnMainFailureRetry == "main"
\* lines 113-116: the main call's exception is re-raised, which ends
\* gemini_explain
OnMainFailure == "done"

FlowOff ==
    /\ apc = "off"
    /\ endpoint = "none"
    /\ file = NoFile
    /\ text = <<>>
    /\ readers = <<>>
    /\ raisedAt = "none"
    /\ calls = <<>>
    /\ mainOutcome = NoOutcome
    /\ riskOutcome = NoOutcome
    /\ result = NoResult
    /\ response = NoResponse

FlowInit ==
    /\ apc = "start"
    /\ endpoint = "none"
    /\ file = NoFile
    /\ text = <<>>
    /\ readers = <<>>
    /\ raisedAt = "none"
    /\ calls = <<>>
    /\ mainOutcome = NoOutcome
    /\ riskOutcome = NoOutcome
    /\ result = NoResult
    /\ response = NoResponse

\* lines 175-178 and, when extraction raises, 180-182
Analyze ==
    /\ apc = "start"
    /\ \E f \in Files :
         LET x == extract_text_from_file(f.content, f.filename)
         IN /\ file' = f
            /\ endpoint' = "analyze"
            /\ readers' = x.readers
            /\ raisedAt' = x.raised
            /\ text' = x.text
            /\ IF x.raised = "none"
               THEN /\ apc' = "main"
                    /\ UNCHANGED response
               ELSE /\ apc' = "done"
                    /\ response' = [status |-> AnalyzeErrorStatus, detail |-> x.message,
                                    body |-> NoResult]
    /\ UNCHANGED <<calls, mainOutcome, riskOutcome, result>>
    /\ UNCHANGED <<parserVars, regVars>>

\* line 109: the main request is sent
MainIssue ==
    /\ apc = "main"
    /\ calls' = Append(calls, "main_sent")
    /\ apc' = "main_wait"
    /\ UNCHANGED <<endpoint, file, text, readers, raisedAt, mainOutcome, riskOutcome,
                   result, response>>
    /\ UNCHANGED <<parserVars, regVars>>

\* lines 109-139: the main call's outcome; on success the answer is parsed,
\* on failure the exception reaches analyze_document, lines 180-182
MainReturn ==
    /\ apc = "main_wait"
    /\ \E o \in MainOutcomes :
         /\ mainOutcome' = o
         /\ calls' = Append(calls, "main_returned")
         /\ IF o.kind = "ok"
            THEN /\ answer' = o.text
                 /\ data_map' = ParseAnswer(o.text)
                 /\ apc' = "risk"
                 /\ UNCHANGED response
            ELSE /\ apc' = OnMainFailure
                 /\ response' = [status |-> AnalyzeErrorStatus, detail |-> ExcMessage(o),
                                 body |-> NoResult]
                 /\ UNCHANGED <<answer, data_map>>
    /\ UNCHANGED <<endpoint, file, text, readers, raisedAt, riskOutcome, result>>
    /\ UNCHANGED <<sections, i, ppc, regVars>>

\* line 152: the risk request is sent
RiskIssue ==
    /\ apc = "risk"
    /\ calls' = Append(calls, "risk_sent")
    /\ apc' = "risk_wait"
    /\ UNCHANGED <<endpoint, file, text, readers, raisedAt, mainOutcome, riskOutcome,
                   result, response>>
    /\ UNCHANGED <<parserVars, regVars>>

\* lines 152-172 and 179: the risk call's outcome, the DocumentResponse, 200
RiskReturn ==
    /\ apc = "risk_wait"
    /\ \E o \in RiskOutcomes :
         /\ riskOutcome' = o
         /\ calls' = Append(calls, "risk_returned")
         /\ result' = DocumentResponse(data_map, RiskValue(o), text)
         /\ response' = [status |-> 200, detail |-> NoMessage,
                         body |-> DocumentResponse(data_map, RiskValue(o), text)]
    /\ apc' = "done"
    /\ UNCHANGED <<endpoint, file, text, readers, raisedAt, mainOutcome>>
    /\ UNCHANGED <<parserVars, regVars>>

\* line 201: the chat request is sent
ChatIssue ==
    /\ apc = "start"
    /\ endpoint' = "chat"
    /\ calls' = Append(calls, "chat_sent")
    /\ apc' = "chat_wait"
    /\ UNCHANGED <<file, text, readers, raisedAt, mainOutcome, riskOutcome, result,
                   response>>
    /\ UNCHANGED <<parserVars, regVars>>

\* lines 201-207: the chat call's outcome
ChatReturn ==
    /\ apc = "chat_wait"
    /\ \E o \in ChatOutcomes :
         /\ mainOutcome' = o
         /\ calls' = Append(calls, "chat_returned")
         /\ response' = IF o.kind = "ok"
                        THEN [status |-> 200, detail |-> NoMessage,
                              body |-> [answer |-> o.text]]
                        ELSE [status |-> ChatErrorStatus, detail |-> ExcMessage(o),
                              body |-> NoResult]
    /\ apc' = "done"
    /\ UNCHANGED <<endpoint, file, text, readers, raisedAt, riskOutcome, result>>
    /\ UNCHANGED <<parserVars, regVars>>

(***************************************************************************)
(* NReq concurrent requests on /api/register, lines 209-238.  Each         *)
(* statement that talks to the session is one step, so that the steps of   *)
(* requests served by different workers interleave.  A row carries the id  *)
(* of the request that inserted it.                                        *)
(***************************************************************************)
Requests == 1..NReq
Emails == {"a@x.uz", "b@x.uz"}
Phones == {"+998901", "+998902"}

Row(r, d) == [id |-> r, email |-> d.email, phone |-> d.phone]

\* lines 213-215: .filter((User.email == data.email) | (User.phone == data.phone))
Existing(d, rows) == {u \in rows : u.email = d.email \/ u.phone = d.phone}

\* the users table's unique column (models.py): "email (unique)"
UniqueViolation(row, rows) == \E u \in rows : u.email = row.email

\* line 218 and line 236
DuplicateStatus == 400
FailureStatus == 500

\* a variant without `except HTTPException: raise`
OnHTTPExceptionSwallowed == "except"
\* lines 232-233: an HTTPException passes the handlers straight to `finally`
OnHTTPException == "finally"
\* lines 234-236: any other exception is handled by rollback and a 500
OnException == "except"
\* line 230 returns into line 231, then `finally`
OnRefreshed == "finally"

RegOff ==
    /\ users = {}
    /\ data = <<>>
    /\ rpc = <<>>
    /\ snap = <<>>
    /\ pending = <<>>
    /\ log = <<>>
    /\ status = <<>>

RegInit ==
    /\ users = {}
    /\ data \in [Requests -> [email : Emails, phone : Phones]]
    /\ rpc = [r \in Requests |-> "new"]
    /\ snap = [r \in Requests |-> {}]
    /\ pending = [r \in Requests |-> {}]
    /\ log = [r \in Requests |-> <<>>]
    /\ status = [r \in Requests |-> 0]

\* line 211
ROpen(r) ==
    /\ rpc[r] = "new"
    /\ rpc' = [rpc EXCEPT ![r] = "query"]
    /\ log' = [log EXCEPT ![r] = Append(@, "open")]
    /\ UNCHANGED <<users, data, snap, pending, status>>
    /\ UNCHANGED <<parserVars, flowVars>>

\* lines 213-220: the query reads the committed rows
RQuery(r) ==
    /\ rpc[r] = "query"
    /\ snap' = [snap EXCEPT ![r] = users]
    /\ log' = [log EXCEPT ![r] = Append(@, "query")]
    /\ IF Existing(data[r], users) # {}
       THEN /\ rpc' = [rpc EXCEPT ![r] = OnHTTPException]
            /\ status' = [status EXCEPT ![r] = DuplicateStatus]
       ELSE /\ rpc' = [rpc EXCEPT ![r] = "hash"]
            /\ UNCHANGED status
    /\ UNCHANGED <<users, data, pending>>
    /\ UNCHANGED <<parserVars, flowVars>>

\* lines 213-215: the query raises (the storage is unreachable)
RQueryFails(r) ==
    /\ rpc[r] = "query"
    /\ rpc' = [rpc EXCEPT ![r] = OnException]
    /\ log' = [log EXCEPT ![r] = Append(@, "query_failed")]
    /\ UNCHANGED <<users, data, snap, pending, status>>
    /\ UNCHANGED <<parserVars, flowVars>>

\* line 221
RHash(r) ==
    /\ rpc[r] = "hash"
    /\ rpc' = [rpc EXCEPT ![r] = "add"]
    /\ UNCHANGED <<users, data, snap, pending, log, status>>
    /\ UNCHANGED <<parserVars, flowVars>>

\* line 221: pwd_context.hash raises
RHashFails(r) ==
    /\ rpc[r] = "hash"
    /\ rpc' = [rpc EXCEPT ![r] = OnException]
    /\ log' = [log EXCEPT ![r] = Append(@, "hash_failed")]
    /\ UNCHANGED <<users, data, snap, pending, status>>
    /\ UNCHANGED <<parserVars, flowVars>>

\* lines 222-228: the new row is pending in the session
RAdd(r) ==
    /\ rpc[r] = "add"
    /\ pending' = [pending EXCEPT ![r] = {Row(r, data[r])}]
    /\ log' = [log EXCEPT ![r] = Append(@, "add")]
    /\ rpc' = [rpc EXCEPT ![r] = "commit"]
    /\ UNCHANGED <<users, data, snap, status>>
    /\ UNCHANGED <<parserVars, flowVars>>

\* line 229: the INSERT and the COMMIT succeed
RCommit(r) ==
    /\ rpc[r] = "commit"
    /\ \A row \in pending[r] : ~UniqueViolation(row, users)
    /\ users' = users \cup pending[r]
    /\ pending' = [pending EXCEPT ![r] = {}]
    /\ log' = [log EXCEPT ![r] = Append(@, "commit")]
    /\ rpc' = [rpc EXCEPT ![r] = "refresh"]
    /\ UNCHANGED <<data, snap, status>>
    /\ UNCHANGED <<parserVars, flowVars>>

\* line 229: the INSERT or the COMMIT raises (a unique violation, or the
\* storage fails)
RCommitFails(r) ==
    /\ rpc[r] = "commit"
    /\ log' = [log EXCEPT ![r] = Append(@, "commit_failed")]
    /\ rpc' = [rpc EXCEPT ![r] = OnException]
    /\ UNCHANGED <<users, data, snap, pending, status>>
    /\ UNCHANGED <<parserVars, flowVars>>

\* lines 230-231
RRefresh(r) ==
    /\ rpc[r] = "refresh"
    /\ status' = [status EXCEPT ![r] = 200]
    /\ rpc' = [rpc EXCEPT ![r] = OnRefreshed]
    /\ UNCHANGED <<users, data, snap, pending, log>>
    /\ UNCHANGED <<parserVars, flowVars>>

\* line 230: db.refresh raises, after the commit
RRefreshFails(r) ==
    /\ rpc[r] = "refresh"
    /\ log' = [log EXCEPT ![r] = Append(@, "refresh_failed")]
    /\ rpc' = [rpc EXCEPT ![r] = OnException]
    /\ UNCHANGED <<users, data, snap, pending, status>>
    /\ UNCHANGED <<parserVars, flowVars>>

\* lines 234-236: rollback discards what is pending; committed rows stay
RExcept(r) ==
    /\ rpc[r] = "except"
    /\ pending' = [pending EXCEPT ![r] = {}]
    /\ log' = [log EXCEPT ![r] = Append(@, "rollback")]
    /\ status' = [status EXCEPT ![r] = FailureStatus]
    /\ rpc' = [rpc EXCEPT ![r] = "finally"]
    /\ UNCHANGED <<users, data, snap>>
    /\ UNCHANGED <<parserVars, flowVars>>

\* lines 237-238, then the response leaves
RFinally(r) ==
    /\ rpc[r] = "finally"
    /\ pending' = [pending EXCEPT ![r] = {}]
    /\ log' = [log EXCEPT ![r] = Append(@, "close")]
    /\ rpc' = [rpc EXCEPT ![r] = "done"]
    /\ UNCHANGED <<users, data, snap, status>>
    /\ UNCHANGED <<parserVars, flowVars>>

(***************************************************************************)
(* The specifications.                                                     *)
(***************************************************************************)
\* the parser on its own
InitParse == ParserInit /\ FlowOff /\ RegOff
NextParse ==
    \/ PSplit
    \/ PStep
    \/ PDone
SpecParse == InitParse /\ [][NextParse]_vars

\* one analysis or chat request
InitFlow == ParserOff /\ FlowInit /\ RegOff
NextFlow ==
    \/ Analyze
    \/ MainIssue
    \/ MainReturn
    \/ RiskIssue
    \/ RiskReturn
    \/ ChatIssue
    \/ ChatReturn
SpecFlow == InitFlow /\ [][NextFlow]_vars

\* concurrent registrations
InitReg == ParserOff /\ FlowOff /\ RegInit
NextReg ==
    \E r \in Requests :
        \/ ROpen(r)
        \/ RQuery(r)
        \/ RQueryFails(r)
        \/ RHash(r)
        \/ RHashFails(r)
        \/ RAdd(r)
        \/ RCommit(r)
        \/ RCommitFails(r)
        \/ RRefresh(r)
        \/ RRefreshFails(r)
        \/ RExcept(r)
        \/ RFinally(r)
SpecReg == InitReg /\ [][NextReg]_vars

(***************************************************************************)
(* The claims.                                                             *)
(***************************************************************************)
Has(seq, x) == \E k \in 1..Len(seq) : seq[k] = x
Count(seq, x) == Cardinality({k \in 1..Len(seq) : seq[k] = x})
IsPrefix(p, q) == Len(p) <= Len(q) /\ SubSeq(q, 1, Len(p)) = p

\* C1: in every reachable state of the user store no two stored users have
\* the same email and no two stored users have the same phone, whatever the
\* interleaving of the requests' query, insert and commit steps.
UniqueUsers ==
    \A u \in users : \A v \in users :
        u # v => (u.email # v.email /\ u.phone # v.phone)

\* the claim's conflict: a stored user with the request's email or phone
Conflicts(d, rows) == \E u \in rows : u.email = d.email \/ u.phone = d.phone

\* C2: a register request whose uniqueness query finds a stored user with
\* its email or its phone ends with status 400 and performs no insert, no
\* commit and no rollback; no row of that request is stored or pending.
DuplicateRejected ==
    \A r \in Requests :
        (Has(log[r], "query") /\ Conflicts(data[r], snap[r])) =>
            /\ rpc[r] \in {"finally", "done"}
            /\ status[r] = 400
            /\ ~Has(log[r], "add")
            /\ ~Has(log[r], "commit")
            /\ ~Has(log[r], "commit_failed")
            /\ ~Has(log[r], "rollback")
            /\ pending[r] = {}
            /\ ~\E u \in users : u.id = r

\* a request was answered 400 after its query found another request's row
DuplicateRejectedWitness ==
    \E r \in Requests :
        /\ rpc[r] = "done"
        /\ status[r] = 400
        /\ Conflicts(data[r], snap[r])
        /\ \E u \in users : u.id # r /\ u.phone = data[r].phone /\ u.email # data[r].email

\* the claim's numeric text: trimmed, an optional sign and then digits only
NumericText(t) ==
    LET u == StripChars(t, Whitespace)
        b == IF u # <<>> /\ u[1] \in {"+", "-"} THEN Tail(u) ELSE u
    IN b # <<>> /\ \A k \in 1..Len(b) : b[k] \in Digits

\* the risk call failed: the call itself, or the parse of its text
RiskCallFailed(o) ==
    o.kind \in FailureKinds \/ (o.kind = "ok" /\ ~NumericText(o.text))

\* C3: once the main call has succeeded the request ends with a 200 and an
\* AnalysisResult for every outcome of the risk call; when the risk call
\* fails (status, network, timeout, JSON, missing part, or a text that is
\* no number) the risk is exactly 50, and the other fields are those parsed
\* from the main answer.
RiskNeverFails ==
    (endpoint = "analyze" /\ apc = "done" /\ mainOutcome.kind = "ok") =>
        /\ response.status = 200
        /\ result # NoResult
        /\ response.body = result
        /\ RiskCallFailed(riskOutcome) => result.risk = 50
        /\ result.explanation = ParseAnswer(mainOutcome.text).explanation
        /\ result.summary = ParseAnswer(mainOutcome.text).summary
        /\ result.key_points = ParseAnswer(mainOutcome.text).key_points
        /\ result.risks = ParseAnswer(mainOutcome.text).risks
        /\ result.recommendations = ParseAnswer(mainOutcome.text).recommendations

\* the risk call timed out and the request was answered 200 with risk 50
RiskNeverFailsWitness ==
    /\ endpoint = "analyze"
    /\ apc = "done"
    /\ riskOutcome.kind = "timeout"
    /\ response.status = 200
    /\ result # NoResult
    /\ result.risk = 50
    /\ result.summary # <<>>

\* C4: every AnalysisResult returned has a risk that is an integer in 0..100,
\* for every text of the risk call and for every failure of that call.
RiskInRange ==
    result # NoResult => result.risk \in 0..100

\* C5: within one analysis request the main call is sent at most once and
\* returns before the risk call is sent; the risk call is sent at most once
\* and only after the main call succeeded; a failed main call is not sent
\* again and ends the request with an error and no risk call.
UpstreamOrder ==
    endpoint = "analyze" =>
        /\ IsPrefix(calls, <<"main_sent", "main_returned", "risk_sent", "risk_returned">>)
        /\ Has(calls, "risk_sent") => mainOutcome.kind = "ok"
        /\ mainOutcome.kind \in FailureKinds =>
              /\ apc = "done"
              /\ calls = <<"main_sent", "main_returned">>
              /\ response.status \notin {0, 200}
              /\ result = NoResult

\* both calls were made, in order, and the request is answered
UpstreamOrderWitness ==
    /\ endpoint = "analyze"
    /\ apc = "done"
    /\ calls = <<"main_sent", "main_returned", "risk_sent", "risk_returned">>
    /\ mainOutcome.kind = "ok"

\* the message of the raise statement that ended extraction
RaisedMessage ==
    CASE raisedAt = "unsupported" -> MsgUnsupported(file.filename)
      [] raisedAt = "docx" -> MsgDocx
      [] raisedAt = "pdf" -> MsgPdf
      [] OTHER -> NoMessage

\* C6: on /api/analyze-document every failure of text extraction and every
\* failure of the main upstream call is answered 400 with the raw error
\* message as detail, never 200 with a partial result and never 500; the
\* same upstream failure on /api/chat is answered 500.
BoundaryErrors ==
    apc = "done" =>
        /\ (endpoint = "analyze" /\ raisedAt # "none") =>
              /\ response = [status |-> 400, detail |-> RaisedMessage, body |-> NoResult]
              /\ result = NoResult
              /\ calls = <<>>
        /\ (endpoint = "analyze" /\ mainOutcome.kind \in FailureKinds) =>
              /\ response = [status |-> 400, detail |-> ExcMessage(mainOutcome),
                             body |-> NoResult]
              /\ result = NoResult
        /\ (endpoint = "chat" /\ mainOutcome.kind \in FailureKinds) =>
              response = [status |-> 500, detail |-> ExcMessage(mainOutcome),
                          body |-> NoResult]

\* the main call of an analysis request failed with a non-2xx status
BoundaryErrorsWitness ==
    /\ apc = "done"
    /\ endpoint = "analyze"
    /\ mainOutcome.kind = "http_error"
    /\ response.status = 400

\* the claim's list: the lines whose trimmed content starts with an asterisk,
\* each without its leading and trailing asterisks and whitespace, in order,
\* without the empty ones
ClaimedList(body) ==
    LET lines == SplitLines(body)
        bullets == SelectIdx(lines,
                     {k \in 1..Len(lines) :
                        StartsWith(StripChars(lines[k], Whitespace), <<"*">>)}, 1)
        stripped == [k \in 1..Len(bullets) |->
                        StripChars(bullets[k], Whitespace \cup {"*"})]
    IN SelectIdx(stripped, {k \in 1..Len(stripped) : stripped[k] # <<>>}, 1)

\* the claim's classification: the first keyword, in the order listed, that
\* the lower-cased label contains decides the field
ClaimKeywords ==
    << {kwExplanation, kwExplain}, {kwSummary}, {kwKeyPoint}, {kwRisk}, {kwRecommendation} >>
ClaimFields == <<"explanation", "summary", "key_points", "risks", "recommendations">>
ClaimField(label) ==
    LET hits == {k \in 1..5 : \E kw \in ClaimKeywords[k] : Contains(Lower(label), kw)}
    IN IF hits = {} THEN "none" ELSE ClaimFields[SetMin(hits)]

\* C7: the list a list heading's body yields consists exactly of the lines
\* whose trimmed content starts with an asterisk, each with leading and
\* trailing asterisks and whitespace stripped, in original order, and holds
\* only non-empty strings.
ListExtraction ==
    (ppc \in {"loop", "done"} /\ i >= 3) =>
        LET f == ClaimField(sections[i - 1])
        IN f \in {"key_points", "risks", "recommendations"} =>
              /\ data_map[f] = ClaimedList(sections[i])
              /\ \A k \in 1..Len(data_map[f]) : data_map[f][k] # <<>>

\* the headings processed so far are at the even positions below i
Processed == {j \in 1..Len(sections) : j % 2 = 0 /\ j < i}

\* the value the claim gives field f after the headings processed so far
ExpectedField(f) ==
    LET mine == {j \in Processed : ClaimField(sections[j]) = f}
    IN IF mine = {} THEN <<>>
       ELSE IF f \in {"explanation", "summary"}
       THEN StripChars(sections[SetMax(mine) + 1], Whitespace)
       ELSE BulletLines(StripChars(sections[SetMax(mine) + 1], Whitespace))

\* C8: each label is matched case-insensitively by substring against
\* explanation/explain, summary, key point, risk, recommendation in that
\* order and the first match alone decides the field; of several headings
\* for one field the last decides; a label matching none changes nothing; a
\* field without a heading keeps its default; parsing never raises.
LabelClassification ==
    /\ ppc # "raised"
    /\ ppc \in {"loop", "done"} =>
          \A k \in 1..5 : data_map[ClaimFields[k]] = ExpectedField(ClaimFields[k])

\* "Risk Summary" then "Summary" with another body: the summary is the
\* second body and nothing was taken as risks
LabelClassificationWitness ==
    /\ ppc = "done"
    /\ Len(sections) = 5
    /\ sections[2] = lblRiskSummary
    /\ sections[4] = lblSummary
    /\ sections[3] # sections[5]
    /\ data_map.summary = StripChars(sections[5], Whitespace)
    /\ data_map.risks = <<>>

\* the claim's supported suffixes, compared case-sensitively
SupportedSuffix(filename) ==
    \E ext \in {extTxt, extDocx, extPdf} :
        /\ Len(filename) >= Len(ext)
        /\ \A k \in 1..Len(ext) : filename[Len(filename) - Len(ext) + k] = ext[k]

\* C9: a filename not ending in .txt, .docx or .pdf (case-sensitively) fails
\* as UnsupportedFormat with no format reader invoked; a .docx or .pdf
\* payload its reader cannot parse fails as ExtractionError; and the error
\* the caller receives tells the two apart.
ExtractionOutcomes ==
    endpoint = "analyze" =>
        /\ ~SupportedSuffix(file.filename) =>
              /\ raisedAt = "unsupported"
              /\ readers = <<>>
              /\ apc = "done"
        /\ (EndsWith(file.filename, extDocx) /\ file.content.format # "docx") =>
              (raisedAt = "docx" /\ readers = <<"docx">> /\ apc = "done")
        /\ (EndsWith(file.filename, extPdf) /\ file.content.format # "pdf") =>
              (raisedAt = "pdf" /\ readers = <<"pdf">> /\ apc = "done")
        /\ raisedAt # "none" =>
              (response.detail.msg = MsgUnsupported(file.filename).msg
                  <=> raisedAt = "unsupported")

\* "A.PDF" was refused as unsupported and no reader ran
ExtractionOutcomesWitness ==
    /\ endpoint = "analyze"
    /\ apc = "done"
    /\ file.filename = <<"A", ".", "P", "D", "F">>
    /\ raisedAt = "unsupported"
    /\ readers = <<>>
    /\ response.status = 400

\* a step of request r failed with something other than the duplicate conflict
Failed(r) ==
    \E k \in 1..Len(log[r]) :
        log[r][k] \in {"query_failed", "hash_failed", "commit_failed", "refresh_failed"}

\* C10: every register request that opened a session has closed it exactly
\* once when its response is produced, on every path; and every failure
\* other than the duplicate conflict rolls back before the close, is
\* answered 500 and leaves no row of that request stored.
SessionReleased ==
    \A r \in Requests :
        rpc[r] = "done" =>
            /\ Count(log[r], "open") = 1
            /\ Count(log[r], "close") = 1
            /\ log[r][Len(log[r])] = "close"
            /\ Failed(r) =>
                  /\ log[r][Len(log[r]) - 1] = "rollback"
                  /\ status[r] = 500
                  /\ ~\E u \in users : u.id = r

====
